---- MODULE Spec2Model ----
(***************************************************************************)
(* react-native-axios-jwt, src/index.ts: the token store, the expiry check *)
(* and the request interceptor with its module-wide isRefreshing flag and  *)
(* waiter queue.                                                           *)
(*                                                                         *)
(* Every request is an asynchronous task.  A task yields at each await:    *)
(* AsyncStorage reads and writes, the requestRefresh callback, and a       *)
(* queued waiter's promise.  One action is one run of synchronous code     *)
(* between two yields; the effect of a storage operation on the store is   *)
(* the action that follows the call.  Time (Date.now() / 1000) is counted  *)
(* in whole seconds.                                                       *)
(***************************************************************************)
EXTENDS Integers, Sequences, FiniteSets, TLC

\* ---------------------------------------------------------------- bounds
NumReq == 3
MaxNow == 1
NumDirect == 2
NumApp == 1

\* ------------------------------------------------------------- constants
EXPIRE_FUDGE == 10

Reqs == 1..NumReq

Undefined == "undefined"
Falsy(x) == x \in {"", Undefined}

header == "Authorization"
headerPrefix == "Bearer "

\* ------------------------------------------------------------ token codec
\* The payload jwt-decode yields for each access token of the model.
jwtDecode(token) ==
  CASE token = "aNoExp" -> [hasExp |-> FALSE, exp |-> 0]
    [] token = "aExp0"  -> [hasExp |-> TRUE, exp |-> 0]
    [] token = "a5"     -> [hasExp |-> TRUE, exp |-> 5]
    [] token = "a11"    -> [hasExp |-> TRUE, exp |-> 11]
    [] token = "a12"    -> [hasExp |-> TRUE, exp |-> 12]
    [] token = "n50"    -> [hasExp |-> TRUE, exp |-> 50]
    [] token = "n60"    -> [hasExp |-> TRUE, exp |-> 60]

\* jwt-decode throws an InvalidTokenError for a string that is not a JWT.
Decodable(token) == token # "aBad"

\* decoded.exp, with hasExp = FALSE for undefined
getTimestampFromToken(token) == jwtDecode(token)

\* !expiration is true of undefined and of 0
getExpiresIn(token, t) ==
  LET expiration == getTimestampFromToken(token)
  IN  IF ~expiration.hasExp \/ expiration.exp = 0 THEN -1
      ELSE expiration.exp - t

isTokenExpiredLt(token, t) ==
  IF Falsy(token) THEN TRUE
  ELSE LET expiresIn == getExpiresIn(token, t)
       IN  expiresIn = 0 \/ expiresIn < EXPIRE_FUDGE

isTokenExpired(token, t) ==
  IF Falsy(token) THEN TRUE
  ELSE LET expiresIn == getExpiresIn(token, t)
       IN  expiresIn = 0 \/ expiresIn <= EXPIRE_FUDGE

\* ------------------------------------------------------------ token store
\* The AsyncStorage item under STORAGE_KEY: null, or the JSON text of a token
\* object.  JSON.stringify keeps the two string fields; JSON.parse gives them back.
NullItem == <<>>
JSONstringify(tokens) == <<tokens.accessToken, tokens.refreshToken>>
JSONparse(rawTokens) ==
  [defined |-> TRUE, accessToken |-> rawTokens[1], refreshToken |-> rawTokens[2]]

UndefinedTokens ==
  [defined |-> FALSE, accessToken |-> Undefined, refreshToken |-> Undefined]
AuthTokens(a, r) == [defined |-> TRUE, accessToken |-> a, refreshToken |-> r]

\* getAuthTokens: undefined when the item is null, else the parsed object
getAuthTokens(rawTokens) ==
  IF rawTokens = NullItem THEN UndefinedTokens ELSE JSONparse(rawTokens)

getRefreshToken(rawTokens) ==
  LET tokens == getAuthTokens(rawTokens)
  IN  IF tokens.defined THEN tokens.refreshToken ELSE Undefined

getAccessToken(rawTokens) ==
  LET tokens == getAuthTokens(rawTokens)
  IN  IF tokens.defined THEN tokens.accessToken ELSE Undefined

isLoggedIn(rawTokens) == ~Falsy(getRefreshToken(rawTokens))

\* ------------------------------------------------------ callback outcomes
\* What requestRefresh can settle with: a bare string, a token object, a value
\* of another shape, or a rejection carrying error.response.status.
Resolved(kind, a, r) == [kind |-> kind, accessToken |-> a, refreshToken |-> r, status |-> 0]
Rejected(status) ==
  [kind |-> "reject", accessToken |-> Undefined, refreshToken |-> Undefined, status |-> status]
NoResult == Resolved("none", Undefined, Undefined)

CallbackResults ==
  { Resolved("string", "n50", Undefined), Resolved("string", "", Undefined),
    Resolved("object", "n60", "r2"), Resolved("object", "n60", ""),
    Resolved("object", "", "r2"), Resolved("undefined", Undefined, Undefined),
    Rejected(401), Rejected(422), Rejected(500) }

\* ------------------------------------------------------------------ errors
\* An error is the sequence of its message parts; <<>> is no error.
NoError == <<>>
NoRefreshTokenError == <<"No refresh token available">>
ProtocolError ==
  <<"requestRefresh must either return a string or an object with an accessToken">>
NoTokensStoredError ==
  <<"Unable to update access token since there are not tokens currently stored">>
CallbackError(status) == <<"requestRefresh rejected", ToString(status)>>
GotStatusError(status) ==
  <<"Got", ToString(status), "on token refresh; clearing both auth tokens">>
\* throw new Error(error)
RethrownError(error) == <<"Error">> \o error
\* throw new Error(`Unable to refresh access token ...: ${error.message}`)
UnableToRefreshError(error) ==
  <<"Unable to refresh access token for request due to token refresh error">> \o error
TypeError == <<"TypeError">>
InvalidTokenError == <<"InvalidTokenError">>
\* AsyncStorage.getItem rejects
StorageError == <<"AsyncStorage error">>

NoHeader == <<>>
HeaderOf(token) == <<headerPrefix, token>>

\* ------------------------------------------------------------------- state
VARIABLES
  store,        \* the AsyncStorage item under STORAGE_KEY
  now,          \* Date.now() / 1000
  isRefreshing, \* module variable
  queue,        \* module variable: the waiters, by request
  task          \* per request: its position, locals and result

vars == <<store, now, isRefreshing, queue, task>>

InitStores ==
  { NullItem,
    JSONstringify(AuthTokens("a5", "r1")),
    JSONstringify(AuthTokens("a11", "r1")),
    JSONstringify(AuthTokens("aNoExp", "r1")) }

NewTask(kind) ==
  [ kind    |-> kind,         \* "icpt": authTokenInterceptor, "direct": refreshTokenIfNeeded
    pc      |-> "start",
    rt      |-> Undefined,    \* interceptor: refreshToken
    at      |-> Undefined,    \* refreshTokenIfNeeded: accessToken
    arg     |-> Undefined,    \* refreshToken: refreshToken, passed to requestRefresh
    res     |-> NoResult,     \* refreshToken: newTokens, or the rejection
    read    |-> UndefinedTokens, \* setAccessToken: tokens
    tok     |-> Undefined,    \* the token the call yields
    err     |-> NoError,      \* the error the call fails with
    hdr     |-> NoHeader,     \* requestConfig.headers[header]
    out     |-> "pending",    \* "pending", "returned" or "failed"
    mode    |-> "none",       \* history: "pass", "queued" or "refresher"
    by      |-> 0,            \* history: the request whose resolveQueue/declineQueue settled this one
    calls   |-> 0,            \* history: requestRefresh invocations made by this request
    chk     |-> 0,            \* history: the time of the expiry check
    seen    |-> NullItem,     \* history: the store when refreshTokenIfNeeded read it
    ord     |-> 0 ]           \* history: the turn of this waiter in the queue's forEach

Init ==
  /\ store \in InitStores
  /\ now = 0
  /\ isRefreshing = FALSE
  /\ queue = <<>>
  /\ task = [i \in Reqs |-> NewTask("icpt")]

Set(i, t) == task' = [task EXCEPT ![i] = t]

\* A finished call: its locals are gone, its result and history stay.
Finished(t, out) ==
  [t EXCEPT !.pc = "done", !.out = out, !.rt = Undefined, !.at = Undefined,
            !.arg = Undefined, !.res = NoResult, !.read = UndefinedTokens,
            !.chk = 0, !.seen = NullItem, !.ord = 0]

\* ------------------------------------------------- the request interceptor
\* authTokenInterceptor, `await getRefreshToken()`: the storage read.
InterceptorReadRefreshToken(i) ==
  /\ task[i].kind = "icpt" /\ task[i].pc = "start"
  /\ Set(i, [task[i] EXCEPT !.pc = "gotRefreshToken", !.rt = getRefreshToken(store)])
  /\ UNCHANGED <<store, now, isRefreshing, queue>>

\* A mutant of InterceptorCheck: the flag is not raised before the first await.
InterceptorCheckNoFlag(i) ==
  /\ task[i].kind = "icpt" /\ task[i].pc = "gotRefreshToken"
  /\ IF Falsy(task[i].rt)
     THEN /\ Set(i, Finished([task[i] EXCEPT !.mode = "pass"], "returned"))
          /\ UNCHANGED <<isRefreshing, queue>>
     ELSE IF isRefreshing
     THEN /\ queue' = Append(queue, i)
          /\ Set(i, [task[i] EXCEPT !.pc = "queued", !.mode = "queued"])
          /\ UNCHANGED isRefreshing
     ELSE /\ Set(i, [task[i] EXCEPT !.pc = "getAccessToken", !.mode = "refresher"])
          /\ UNCHANGED <<isRefreshing, queue>>
  /\ UNCHANGED <<store, now>>

\* A mutant of InterceptorCheck: isRefreshing is looked at before the refresh token.
InterceptorCheckQueueFirst(i) ==
  /\ task[i].kind = "icpt" /\ task[i].pc = "gotRefreshToken"
  /\ IF isRefreshing
     THEN /\ queue' = Append(queue, i)
          /\ Set(i, [task[i] EXCEPT !.pc = "queued", !.mode = "queued"])
          /\ UNCHANGED isRefreshing
     ELSE IF Falsy(task[i].rt)
     THEN /\ Set(i, Finished([task[i] EXCEPT !.mode = "pass"], "returned"))
          /\ UNCHANGED <<isRefreshing, queue>>
     ELSE /\ isRefreshing' = TRUE
          /\ Set(i, [task[i] EXCEPT !.pc = "getAccessToken", !.mode = "refresher"])
          /\ UNCHANGED queue
  /\ UNCHANGED <<store, now>>

\* authTokenInterceptor from the resumption after getRefreshToken to the next
\* await: pass through, or join the queue, or raise isRefreshing and call
\* refreshTokenIfNeeded (which calls getAccessToken).
InterceptorCheck(i) ==
  /\ task[i].kind = "icpt" /\ task[i].pc = "gotRefreshToken"
  /\ IF Falsy(task[i].rt)
     THEN /\ Set(i, Finished([task[i] EXCEPT !.mode = "pass"], "returned"))
          /\ UNCHANGED <<isRefreshing, queue>>
     ELSE IF isRefreshing
     THEN /\ queue' = Append(queue, i)
          /\ Set(i, [task[i] EXCEPT !.pc = "queued", !.mode = "queued"])
          /\ UNCHANGED isRefreshing
     ELSE /\ isRefreshing' = TRUE
          /\ Set(i, [task[i] EXCEPT !.pc = "getAccessToken", !.mode = "refresher"])
          /\ UNCHANGED queue
  /\ UNCHANGED <<store, now>>

\* ---------------------------------------------------- refreshTokenIfNeeded
\* `await getAccessToken()`: the storage read.
ReadAccessToken(i) ==
  /\ task[i].pc = "getAccessToken"
  /\ Set(i, [task[i] EXCEPT !.pc = "gotAccessToken", !.at = getAccessToken(store),
                            !.seen = store])
  /\ UNCHANGED <<store, now, isRefreshing, queue>>

\* A mutant of CheckExpired: refreshToken is called whatever the stored token.
CheckExpiredAlways(i) ==
  /\ task[i].pc = "gotAccessToken"
  /\ Set(i, [task[i] EXCEPT !.pc = "getRefreshToken", !.chk = now])
  /\ UNCHANGED <<store, now, isRefreshing, queue>>

\* The expiry check: jwtDecode throws out of isTokenExpired for a stored token
\* that does not decode; else return the stored token, or call refreshToken
\* (which calls getRefreshToken).
CheckExpired(i) ==
  /\ task[i].pc = "gotAccessToken"
  /\ IF ~Falsy(task[i].at) /\ ~Decodable(task[i].at)
     THEN Set(i, [task[i] EXCEPT !.pc = "rejected", !.err = InvalidTokenError, !.chk = now])
     ELSE IF Falsy(task[i].at) \/ isTokenExpired(task[i].at, now)
     THEN Set(i, [task[i] EXCEPT !.pc = "getRefreshToken", !.chk = now])
     ELSE Set(i, [task[i] EXCEPT !.pc = "resolved", !.tok = task[i].at, !.chk = now])
  /\ UNCHANGED <<store, now, isRefreshing, queue>>

\* ------------------------------------------------------------ refreshToken
\* `await getRefreshToken()`: the storage read.
RefreshReadRefreshToken(i) ==
  /\ task[i].pc = "getRefreshToken"
  /\ Set(i, [task[i] EXCEPT !.pc = "gotRefreshToken2", !.arg = getRefreshToken(store)])
  /\ UNCHANGED <<store, now, isRefreshing, queue>>

\* A mutant of InvokeRequestRefresh: the missing refresh token is not tested.
InvokeRequestRefreshUnchecked(i) ==
  /\ task[i].pc = "gotRefreshToken2"
  /\ Set(i, [task[i] EXCEPT !.pc = "requestRefresh", !.calls = @ + 1])
  /\ UNCHANGED <<store, now, isRefreshing, queue>>

\* Throw when there is no refresh token, else invoke requestRefresh(refreshToken).
InvokeRequestRefresh(i) ==
  /\ task[i].pc = "gotRefreshToken2"
  /\ IF Falsy(task[i].arg)
     THEN Set(i, [task[i] EXCEPT !.pc = "rejected", !.err = NoRefreshTokenError])
     ELSE Set(i, [task[i] EXCEPT !.pc = "requestRefresh", !.calls = @ + 1])
  /\ UNCHANGED <<store, now, isRefreshing, queue>>

\* The shape tests on newTokens.
IsTokenObject(newTokens) == newTokens.kind = "object" /\ ~Falsy(newTokens.accessToken)
IsString(newTokens) == newTokens.kind = "string"
\* A mutant of IsAuthStatus: status 422 is not taken for an invalid refresh token.
IsAuthStatusOnly401(status) == status = 401

\* The test in the catch block on error.response.status.
IsAuthStatus(status) == status = 401 \/ status = 422

\* A mutant of AfterRequestRefresh: every rejection clears the stored tokens.
AfterRequestRefreshClearAlways(i, r) ==
  /\ task[i].pc = "requestRefresh"
  /\ Set(i, [task[i] EXCEPT !.res = r,
                            !.pc = IF r.kind = "reject" THEN "removeItem"
                                   ELSE IF IsTokenObject(r) THEN "setAuthTokens"
                                   ELSE IF IsString(r) THEN "setAccessToken"
                                   ELSE "rejected",
                            !.err = IF r.kind = "reject" \/ IsTokenObject(r) \/ IsString(r)
                                    THEN NoError ELSE RethrownError(ProtocolError)])
  /\ UNCHANGED <<store, now, isRefreshing, queue>>

\* requestRefresh settles with r; refreshToken runs to its next await or throws.
AfterRequestRefresh(i, r) ==
  /\ task[i].pc = "requestRefresh"
  /\ Set(i, [task[i] EXCEPT
       !.res = r,
       !.pc = IF r.kind = "reject"
              THEN (IF IsAuthStatus(r.status) THEN "removeItem" ELSE "rejected")
              ELSE IF IsTokenObject(r) THEN "setAuthTokens"
              ELSE IF IsString(r) THEN "setAccessToken"
              ELSE "rejected",
       !.err = IF r.kind = "reject"
               THEN (IF IsAuthStatus(r.status) THEN NoError
                     ELSE RethrownError(CallbackError(r.status)))
               ELSE IF IsTokenObject(r) \/ IsString(r) THEN NoError
               ELSE RethrownError(ProtocolError)])
  /\ UNCHANGED <<store, now, isRefreshing, queue>>

\* `await setAuthTokens(newTokens)`, then return newTokens.accessToken.
WriteAuthTokens(i) ==
  /\ task[i].pc = "setAuthTokens"
  /\ store' = JSONstringify(AuthTokens(task[i].res.accessToken, task[i].res.refreshToken))
  /\ Set(i, [task[i] EXCEPT !.pc = "resolved", !.tok = task[i].res.accessToken])
  /\ UNCHANGED <<now, isRefreshing, queue>>

\* setAccessToken, `await getAuthTokens()`: the storage read.
SetAccessTokenRead(i) ==
  /\ task[i].pc = "setAccessToken"
  /\ Set(i, [task[i] EXCEPT !.pc = "gotAuthTokens", !.read = getAuthTokens(store)])
  /\ UNCHANGED <<store, now, isRefreshing, queue>>

\* A mutant of SetAccessTokenWrite: the stored object is replaced by the new
\* access token alone.
SetAccessTokenWriteDropsRefresh(i) ==
  /\ task[i].pc = "gotAuthTokens"
  /\ store' = JSONstringify(AuthTokens(task[i].res.accessToken, ""))
  /\ Set(i, [task[i] EXCEPT !.pc = "resolved", !.tok = task[i].res.accessToken])
  /\ UNCHANGED <<now, isRefreshing, queue>>

\* setAccessToken after its read: throw when nothing is stored (caught by
\* refreshToken, rethrown), else write the object with the new access token.
SetAccessTokenWrite(i) ==
  /\ task[i].pc = "gotAuthTokens"
  /\ IF ~task[i].read.defined
     THEN /\ Set(i, [task[i] EXCEPT !.pc = "rejected",
                                    !.err = RethrownError(NoTokensStoredError)])
          /\ UNCHANGED store
     ELSE /\ store' = JSONstringify([task[i].read EXCEPT !.accessToken = task[i].res.accessToken])
          /\ Set(i, [task[i] EXCEPT !.pc = "resolved", !.tok = task[i].res.accessToken])
  /\ UNCHANGED <<now, isRefreshing, queue>>

\* catch block, status 401 or 422: `await AsyncStorage.removeItem(STORAGE_KEY)`,
\* then throw.
RemoveItem(i) ==
  /\ task[i].pc = "removeItem"
  /\ store' = NullItem
  /\ Set(i, [task[i] EXCEPT !.pc = "rejected", !.err = GotStatusError(task[i].res.status)])
  /\ UNCHANGED <<now, isRefreshing, queue>>

\* ------------------------------------------------------------- the queue
Waiting(j) == \E k \in 1..Len(queue) : queue[k] = j

\* A mutant of forEach: the queue is visited from its end.
forEachReversed(j) == Len(queue) + 1 - (CHOOSE k \in 1..Len(queue) : queue[k] = j)

\* queue.forEach visits the elements by ascending index: the turn of waiter j.
forEach(j) == CHOOSE k \in 1..Len(queue) : queue[k] = j


\* A mutant of resolveQueue: only the first waiter's resolve is called.
resolveQueueFirstOnly(token, i) ==
  [j \in Reqs |-> IF queue # <<>> /\ queue[1] = j
                  THEN [task[j] EXCEPT !.pc = "waiterResolved", !.tok = token, !.by = i,
                                       !.ord = forEach(j)]
                  ELSE task[j]]

\* resolveQueue(token) run by request i: every waiter's resolve is called.
resolveQueue(token, i) ==
  [j \in Reqs |-> IF Waiting(j)
                  THEN [task[j] EXCEPT !.pc = "waiterResolved", !.tok = token, !.by = i,
                                       !.ord = forEach(j)]
                  ELSE task[j]]

\* declineQueue(error) run by request i: every waiter's reject is called.
declineQueue(error, i) ==
  [j \in Reqs |-> IF Waiting(j)
                  THEN [task[j] EXCEPT !.pc = "waiterRejected", !.err = error, !.by = i,
                                       !.ord = forEach(j)]
                  ELSE task[j]]

\* try block after `await refreshTokenIfNeeded`: resolveQueue, finally, the
\* header, return.
InterceptorResolved(i) ==
  /\ task[i].kind = "icpt" /\ task[i].pc = "resolved"
  /\ task' = [resolveQueue(task[i].tok, i) EXCEPT
                ![i] = Finished([task[i] EXCEPT
                                  !.hdr = IF ~Falsy(task[i].tok) THEN HeaderOf(task[i].tok)
                                          ELSE NoHeader], "returned")]
  /\ queue' = <<>>
  /\ isRefreshing' = FALSE
  /\ UNCHANGED <<store, now>>

\* A mutant of InterceptorRejected: no finally block, the flag stays raised.
InterceptorRejectedNoFinally(i) ==
  /\ task[i].kind = "icpt" /\ task[i].pc = "rejected"
  /\ task' = [declineQueue(task[i].err, i) EXCEPT
                ![i] = Finished([task[i] EXCEPT !.err = UnableToRefreshError(task[i].err)],
                                "failed")]
  /\ queue' = <<>>
  /\ UNCHANGED <<store, now, isRefreshing>>

\* A mutant of InterceptorRejected: declineQueue leaves the queue as it is.
InterceptorRejectedKeepsQueue(i) ==
  /\ task[i].kind = "icpt" /\ task[i].pc = "rejected"
  /\ task' = [declineQueue(task[i].err, i) EXCEPT
                ![i] = Finished([task[i] EXCEPT !.err = UnableToRefreshError(task[i].err)],
                                "failed")]
  /\ isRefreshing' = FALSE
  /\ UNCHANGED <<store, now, queue>>

\* catch block: declineQueue, throw the wrapping error, finally.
InterceptorRejected(i) ==
  /\ task[i].kind = "icpt" /\ task[i].pc = "rejected"
  /\ task' = [declineQueue(task[i].err, i) EXCEPT
                ![i] = Finished([task[i] EXCEPT !.err = UnableToRefreshError(task[i].err)],
                                "failed")]
  /\ queue' = <<>>
  /\ isRefreshing' = FALSE
  /\ UNCHANGED <<store, now>>

\* The waiter's .then handler: set the header, return requestConfig.
WaiterThen(j) ==
  /\ task[j].pc = "waiterResolved"
  /\ Set(j, Finished([task[j] EXCEPT !.hdr = HeaderOf(task[j].tok)], "returned"))
  /\ UNCHANGED <<store, now, isRefreshing, queue>>

\* The waiter's .catch(Promise.reject): Promise.reject is called without a
\* receiver.  A Promise whose reject ignores its receiver passes the error on;
\* the standard one throws a TypeError.  Either way the request fails.
PromiseRejectOutcomes(error) == {error, TypeError}

WaiterCatch(j, e) ==
  /\ task[j].pc = "waiterRejected"
  /\ Set(j, Finished([task[j] EXCEPT !.err = e], "failed"))
  /\ UNCHANGED <<store, now, isRefreshing, queue>>

\* ------------------------------------------- refreshTokenIfNeeded, exported
\* A direct call returns what refreshTokenIfNeeded yields, or fails with its error.
DirectTask == [NewTask("direct") EXCEPT !.pc = "getAccessToken", !.mode = "refresher"]

DirectReturn(i) ==
  /\ task[i].kind = "direct" /\ task[i].pc \in {"resolved", "rejected"}
  /\ Set(i, Finished(task[i], IF task[i].pc = "resolved" THEN "returned" ELSE "failed"))
  /\ UNCHANGED <<store, now, isRefreshing, queue>>

\* -------------------------------------------------------------------- time
Tick ==
  /\ now < MaxNow
  /\ now' = now + 1
  /\ UNCHANGED <<store, isRefreshing, queue, task>>

\* ---------------------------------------------------------- specifications
Step(i) ==
  \/ InterceptorReadRefreshToken(i)
  \/ InterceptorCheck(i)
  \/ ReadAccessToken(i)
  \/ CheckExpired(i)
  \/ RefreshReadRefreshToken(i)
  \/ InvokeRequestRefresh(i)
  \/ \E r \in CallbackResults : AfterRequestRefresh(i, r)
  \/ WriteAuthTokens(i)
  \/ SetAccessTokenRead(i)
  \/ SetAccessTokenWrite(i)
  \/ RemoveItem(i)
  \/ InterceptorResolved(i)
  \/ InterceptorRejected(i)
  \/ WaiterThen(i)
  \/ \E e \in PromiseRejectOutcomes(task[i].err) : WaiterCatch(i, e)

\* Requests made through the interceptor only.
Next == (\E i \in Reqs : Step(i)) \/ Tick

Spec == Init /\ [][Next]_vars

\* Direct calls of the exported refreshTokenIfNeeded, NumDirect of them, within
\* one second; the other requests are never issued.
NotIssued == [NewTask("direct") EXCEPT !.pc = "absent"]

InitDirect ==
  /\ store \in InitStores
  /\ now = 0
  /\ isRefreshing = FALSE
  /\ queue = <<>>
  /\ task = [i \in Reqs |-> IF i <= NumDirect THEN DirectTask ELSE NotIssued]

StepDirect(i) ==
  \/ ReadAccessToken(i)
  \/ CheckExpired(i)
  \/ RefreshReadRefreshToken(i)
  \/ InvokeRequestRefresh(i)
  \/ \E r \in CallbackResults : AfterRequestRefresh(i, r)
  \/ WriteAuthTokens(i)
  \/ SetAccessTokenRead(i)
  \/ SetAccessTokenWrite(i)
  \/ RemoveItem(i)
  \/ DirectReturn(i)

NextDirect == \E i \in Reqs : StepDirect(i)

SpecDirect == InitDirect /\ [][NextDirect]_vars

\* Interceptor requests with faults, within one second: a stored access token
\* that does not decode, and AsyncStorage reads that reject.
InterceptorReadFails(i) ==
  /\ task[i].kind = "icpt" /\ task[i].pc = "start"
  /\ Set(i, Finished([task[i] EXCEPT !.err = StorageError, !.mode = "nostore"], "failed"))
  /\ UNCHANGED <<store, now, isRefreshing, queue>>

\* The reads of getAccessToken and of refreshToken's getRefreshToken reject
\* outside any try block; setAccessToken's read rejects inside refreshToken's.
RefreshReadFails(i) ==
  /\ task[i].pc \in {"getAccessToken", "getRefreshToken", "setAccessToken"}
  /\ Set(i, [task[i] EXCEPT !.pc = "rejected",
                            !.err = IF task[i].pc = "setAccessToken"
                                    THEN RethrownError(StorageError) ELSE StorageError])
  /\ UNCHANGED <<store, now, isRefreshing, queue>>

InitFaults ==
  /\ store \in InitStores \cup {JSONstringify(AuthTokens("aBad", "r1"))}
  /\ now = 0
  /\ isRefreshing = FALSE
  /\ queue = <<>>
  /\ task = [i \in Reqs |-> NewTask("icpt")]

NextFaults == \E i \in Reqs : Step(i) \/ InterceptorReadFails(i) \/ RefreshReadFails(i)

SpecFaults == InitFaults /\ [][NextFaults]_vars

\* ------------------------------------------------- the application's calls
\* Interceptor requests together with NumApp calls the application makes of
\* the exported setAccessToken, setAuthTokens and clearAuthTokens, within one
\* second.  The application's arguments:
AppToken == "n50"
AppTokens == AuthTokens("a12", "r9")
AppKinds == {"clear", "login", "setAccess"}
AppTask(kind) == [NewTask(kind) EXCEPT !.pc = "appStart"]

\* History: the requests whose requestRefresh is outstanding, and the requests
\* inside refreshToken after its read of the refresh token.
RefreshInProgress ==
  {j \in Reqs : task[j].pc \in {"gotRefreshToken2", "requestRefresh", "setAuthTokens",
                                "setAccessToken", "gotAuthTokens", "removeItem"}}
TheOne(S) == IF S = {} THEN 0 ELSE CHOOSE j \in S : TRUE

\* clearAuthTokens(): AsyncStorage.removeItem(STORAGE_KEY).
AppClearAuthTokens(i) ==
  /\ task[i].kind = "clear" /\ task[i].pc = "appStart"
  /\ store' = NullItem
  /\ Set(i, Finished([task[i] EXCEPT !.by = TheOne({j \in Reqs : task[j].pc = "requestRefresh"})],
                     "returned"))
  /\ UNCHANGED <<now, isRefreshing, queue>>

\* setAuthTokens(tokens): AsyncStorage.setItem(STORAGE_KEY, JSON.stringify(tokens)).
AppSetAuthTokens(i) ==
  /\ task[i].kind = "login" /\ task[i].pc = "appStart"
  /\ store' = JSONstringify(AppTokens)
  /\ Set(i, Finished([task[i] EXCEPT !.by = TheOne(RefreshInProgress)], "returned"))
  /\ UNCHANGED <<now, isRefreshing, queue>>

\* setAccessToken(token), `await getAuthTokens()`: the storage read.
AppSetAccessTokenRead(i) ==
  /\ task[i].kind = "setAccess" /\ task[i].pc = "appStart"
  /\ Set(i, [task[i] EXCEPT !.pc = "appGotAuthTokens", !.read = getAuthTokens(store)])
  /\ UNCHANGED <<store, now, isRefreshing, queue>>

\* A mutant of AppSetAccessTokenWrite: with nothing stored a record holding the
\* access token alone is written.
AppSetAccessTokenWriteCreates(i) ==
  /\ task[i].kind = "setAccess" /\ task[i].pc = "appGotAuthTokens"
  /\ store' = JSONstringify(AuthTokens(AppToken, IF task[i].read.defined
                                                 THEN task[i].read.refreshToken ELSE ""))
  /\ Set(i, Finished(task[i], "returned"))
  /\ UNCHANGED <<now, isRefreshing, queue>>

\* setAccessToken after its read: throw when nothing is stored, else
\* tokens.accessToken = token and setAuthTokens(tokens).
AppSetAccessTokenWrite(i) ==
  /\ task[i].kind = "setAccess" /\ task[i].pc = "appGotAuthTokens"
  /\ IF ~task[i].read.defined
     THEN /\ Set(i, Finished([task[i] EXCEPT !.err = NoTokensStoredError], "failed"))
          /\ UNCHANGED store
     ELSE /\ store' = JSONstringify([task[i].read EXCEPT !.accessToken = AppToken])
          /\ Set(i, Finished(task[i], "returned"))
  /\ UNCHANGED <<now, isRefreshing, queue>>

StepApp(i) ==
  \/ AppClearAuthTokens(i)
  \/ AppSetAuthTokens(i)
  \/ AppSetAccessTokenRead(i)
  \/ AppSetAccessTokenWrite(i)

InitApp ==
  /\ store \in InitStores
  /\ now = 0
  /\ isRefreshing = FALSE
  /\ queue = <<>>
  /\ \E k \in [1..NumApp -> AppKinds] :
       task = [i \in Reqs |-> IF i <= NumApp THEN AppTask(k[i]) ELSE NewTask("icpt")]

NextApp == \E i \in Reqs : Step(i) \/ StepApp(i)

SpecApp == InitApp /\ [][NextApp]_vars

\* ------------------------------------------------------------------ claims
Outstanding == {i \in Reqs : task[i].pc = "requestRefresh"}
Done(i) == task[i].pc = "done"

\* C1: through the interceptor at most one requestRefresh invocation is
\* outstanding at any time, and a request that found isRefreshing raised (and
\* so joined the queue) never invokes requestRefresh itself.
C1_SingleFlight ==
  /\ Cardinality(Outstanding) <= 1
  /\ \A i \in Reqs : task[i].mode = "queued" => task[i].calls = 0

C1_Witness ==
  \E i, j, k \in Reqs :
    /\ task[i].pc = "requestRefresh"
    /\ task[j].pc = "queued"
    /\ Done(k) /\ task[k].calls = 1

\* C2: when the in-flight refresh succeeds, each request queued during the
\* cycle proceeds with the same header as the refreshing request, which is
\* headerPrefix followed by the token the refreshing request obtained.
C2_SameHeaderOnSuccess ==
  \A i, j \in Reqs :
    (/\ task[j].by = i /\ Done(j) /\ Done(i)
     /\ task[i].out = "returned")
    => /\ task[j].out = "returned"
       /\ task[i].hdr = HeaderOf(task[i].tok)
       /\ task[j].hdr = task[i].hdr

\* C3: when the in-flight refresh fails, each request queued during the cycle
\* fails, and with the very error the refreshing request fails with.
C3_SameErrorOnFailure ==
  \A i, j \in Reqs :
    (/\ task[j].by = i /\ Done(j) /\ Done(i)
     /\ task[i].out = "failed")
    => /\ task[j].out = "failed"
       /\ task[j].err = task[i].err

\* C4: when requestRefresh rejects with status 401 or 422 the stored tokens are
\* removed before the error leaves refreshToken; from then on isLoggedIn is
\* false, and an interceptor call that reads the store afterwards finds no
\* refresh token and passes its request through without the header.
AuthStatuses == {401, 422}
AuthRejected(i) ==
  \/ /\ task[i].pc = "rejected"
     /\ task[i].res.kind = "reject" /\ task[i].res.status \in AuthStatuses
  \/ /\ Done(i)
     /\ \E st \in AuthStatuses : task[i].err = UnableToRefreshError(GotStatusError(st))

C4_AuthInvalidation ==
  [][ (\A i \in Reqs : AuthRejected(i)' => (store' = NullItem /\ ~isLoggedIn(store')))
      /\ ((\E i \in Reqs : AuthRejected(i)) =>
            \A j \in Reqs :
              /\ (task[j].pc = "start" /\ task'[j].pc # "start") => Falsy(task'[j].rt)
              /\ (task[j].pc = "gotRefreshToken" /\ Falsy(task[j].rt) /\ task'[j] # task[j])
                   => (Done(j)' /\ task'[j].out = "returned" /\ task'[j].hdr = NoHeader)) ]_vars

C4_Witness ==
  \E i, j \in Reqs :
    /\ Done(i) /\ task[i].err = UnableToRefreshError(GotStatusError(422))
    /\ Done(j) /\ task[j].mode = "pass" /\ task[j].hdr = NoHeader

\* C5: when requestRefresh rejects without status 401 or 422, or resolves to a
\* value that is neither a string nor an object with an accessToken, the store
\* is what it was before the refresh attempt and still holds the refresh token
\* that was passed to requestRefresh.
TransientFailure(i) ==
  /\ task[i].pc = "rejected"
  /\ task[i].calls > 0
  /\ \/ task[i].res.kind = "reject" /\ task[i].res.status \notin AuthStatuses
     \/ task[i].res.kind = "undefined"
     \/ task[i].res.kind = "object" /\ Falsy(task[i].res.accessToken)

C5_TransientKeepsTokens ==
  \A i \in Reqs :
    TransientFailure(i) =>
      /\ store = task[i].seen
      /\ getRefreshToken(store) = task[i].arg

C5_Witness ==
  \E i \in Reqs :
    /\ TransientFailure(i) /\ task[i].res.kind = "reject"
    /\ store = JSONstringify(AuthTokens("a5", "r1"))

\* C6: a refresh that succeeds was started from a stored pair {a, r} whose
\* access token is missing or expired and invoked requestRefresh with r; a bare
\* string t leaves the store {t, r}, an object {t, r2} (t non-empty) leaves it
\* exactly {t, r2}, and either way refreshTokenIfNeeded yields t.  Neither kind
\* of result ends in an error.
C6_RefreshResult ==
  \A i \in Reqs :
    LET before == getAuthTokens(task[i].seen)
        r == task[i].res
    IN  /\ task[i].pc = "requestRefresh" =>
             /\ before.defined
             /\ task[i].arg = before.refreshToken
        /\ (task[i].pc = "resolved" /\ task[i].calls > 0) =>
             /\ before.defined
             /\ task[i].arg = before.refreshToken
             /\ r.kind \in {"string", "object"}
             /\ task[i].tok = r.accessToken
             /\ r.kind = "string" =>
                  store = JSONstringify(AuthTokens(r.accessToken, before.refreshToken))
             /\ r.kind = "object" =>
                  store = JSONstringify(AuthTokens(r.accessToken, r.refreshToken))
        /\ (task[i].pc = "rejected" /\ task[i].calls > 0) =>
             /\ r.kind # "string"
             /\ r.kind = "object" => Falsy(r.accessToken)

C6_Witness ==
  \E i \in Reqs :
    /\ task[i].pc = "resolved" /\ task[i].res.kind = "string"
    /\ task[i].seen = JSONstringify(AuthTokens("a5", "r1"))
    /\ store = JSONstringify(AuthTokens("n50", "r1"))
    /\ task[i].tok = "n50"

\* C7: a request that found a refresh token stored either proceeds with the
\* header set to headerPrefix followed by a non-empty access token, or fails;
\* it never proceeds without the header.
C7_NeverUnauthenticated ==
  \A i \in Reqs :
    (/\ task[i].kind = "icpt" /\ Done(i)
     /\ task[i].mode \in {"refresher", "queued"}
     /\ task[i].out = "returned")
    => /\ task[i].hdr # NoHeader
       /\ task[i].hdr[1] = headerPrefix /\ ~Falsy(task[i].hdr[2])

\* C8: an interceptor call that finds no refresh token stored returns the
\* request without the header; neither its read nor its return invokes
\* requestRefresh, writes the store, or changes isRefreshing or the queue.
C8_PassThrough ==
  [][ \A i \in Reqs :
        /\ (task[i].pc = "start" /\ task'[i] # task[i]) =>
             UNCHANGED <<store, isRefreshing, queue>>
        /\ (task[i].pc = "gotRefreshToken" /\ Falsy(task[i].rt) /\ task'[i] # task[i]) =>
             /\ task'[i].pc = "done" /\ task'[i].out = "returned"
             /\ task'[i].hdr = NoHeader /\ task'[i].calls = 0
             /\ UNCHANGED <<store, isRefreshing, queue>> ]_vars

C8_Witness ==
  \E i, k \in Reqs :
    /\ Done(i) /\ task[i].mode = "pass" /\ task[i].hdr = NoHeader
    /\ isRefreshing /\ task[k].pc \in {"resolved", "rejected"}

\* C9 as stated: a direct call of refreshTokenIfNeeded that finds no refresh
\* token stored returns undefined, without invoking requestRefresh and without
\* an error.
NoRefreshTokenSeen(i) ==
  /\ task[i].kind = "direct"
  /\ task[i].pc \in {"resolved", "rejected"}
  /\ ~isLoggedIn(task[i].seen)
  /\ Falsy(task[i].arg)

C9_ReturnsUndefined ==
  \A i \in Reqs :
    NoRefreshTokenSeen(i) =>
      /\ task[i].pc = "resolved" /\ task[i].tok = Undefined
      /\ task[i].calls = 0

\* C9 amended: a direct call of refreshTokenIfNeeded that finds no refresh
\* token stored never invokes requestRefresh; it yields the stored access token
\* when that is present and not expired, and otherwise fails with the error
\* 'No refresh token available'.  It never yields undefined.
C9_ThrowsNoRefreshToken ==
  \A i \in Reqs :
    NoRefreshTokenSeen(i) =>
      /\ task[i].calls = 0
      /\ \/ /\ task[i].pc = "resolved"
            /\ task[i].tok = task[i].at /\ ~Falsy(task[i].tok)
            /\ ~isTokenExpired(task[i].at, task[i].chk)
         \/ /\ task[i].pc = "rejected"
            /\ task[i].err = NoRefreshTokenError
            /\ Falsy(task[i].at) \/ isTokenExpired(task[i].at, task[i].chk)

C9_Witness ==
  \E i \in Reqs :
    /\ NoRefreshTokenSeen(i) /\ task[i].seen = NullItem
    /\ task[i].pc = "rejected" /\ task[i].err = NoRefreshTokenError

\* C10: a token with a numeric exp claim is expired exactly when
\* exp - now <= 10, a token without the claim is expired, and
\* refreshTokenIfNeeded goes on to refresh exactly when the stored access token
\* is absent or expired by this rule.
DecodableTokens == {"aNoExp", "aExp0", "a5", "a11", "a12", "n50", "n60"}
ExpiredByRule(token, t) ==
  jwtDecode(token).hasExp => jwtDecode(token).exp - t <= 10

C10_ExpiryThreshold ==
  /\ \A token \in DecodableTokens :
       isTokenExpired(token, now) <=> ExpiredByRule(token, now)
  /\ \A i \in Reqs :
       /\ task[i].pc = "getRefreshToken" =>
            Falsy(task[i].at) \/ ExpiredByRule(task[i].at, task[i].chk)
       /\ (task[i].pc = "resolved" /\ task[i].calls = 0) =>
            ~Falsy(task[i].at) /\ ~ExpiredByRule(task[i].at, task[i].chk)

C10_Witness ==
  \E i, j \in Reqs :
    /\ task[i].pc = "getRefreshToken" /\ task[i].at = "a11" /\ task[i].chk = 1
    /\ Done(j) /\ task[j].hdr = HeaderOf("a11")

\* C11: a stored access token that does not decode is treated as expired: the
\* expiry check does not throw, and refreshTokenIfNeeded goes on to invoke
\* requestRefresh.
C11_MalformedIsExpired ==
  \A i \in Reqs :
    (task[i].pc \notin {"getAccessToken", "gotAccessToken"} /\ task[i].at = "aBad")
    => task[i].err # InvalidTokenError

\* C12: with direct calls of refreshTokenIfNeeded running concurrently, at
\* most one requestRefresh invocation is outstanding at any time.
C12_DirectSingleFlight == Cardinality(Outstanding) <= 1

\* C13: setAccessToken(t) reads the stored pair; with none stored it fails with
\* 'Unable to update access token since there are not tokens currently stored'
\* and writes nothing (no record holding only an access token is created);
\* with {a, r} read it stores {accessToken: t, refreshToken: r} and returns.
C13_SetAccessToken ==
  [][\A i \in Reqs :
       task[i].kind = "setAccess" =>
         /\ (task[i].pc = "appStart" /\ task'[i].pc # "appStart")
            => (task'[i].read = getAuthTokens(store) /\ store' = store)
         /\ (task[i].pc = "appGotAuthTokens" /\ task'[i].pc # "appGotAuthTokens")
            => IF ~task[i].read.defined
               THEN /\ task'[i].out = "failed"
                    /\ task'[i].err = NoTokensStoredError
                    /\ store' = store
               ELSE /\ task'[i].out = "returned"
                    /\ store' = JSONstringify(AuthTokens(AppToken, task[i].read.refreshToken))
                    /\ getAccessToken(store') = AppToken
                    /\ getRefreshToken(store') = task[i].read.refreshToken]_vars

\* setAccessToken has failed with nothing stored, and the store is empty.
C13_Witness ==
  \E i \in Reqs :
    /\ task[i].kind = "setAccess" /\ Done(i)
    /\ task[i].out = "failed" /\ task[i].err = NoTokensStoredError
    /\ store = NullItem

\* The valid-token path: interceptor request i, not queued, has read a stored
\* access token that is present and not expired at the time of its check.
ValidPath(i) ==
  /\ task[i].kind = "icpt" /\ task[i].mode = "refresher"
  /\ task[i].pc \notin {"getAccessToken", "gotAccessToken"}
  /\ ~Falsy(task[i].at) /\ Decodable(task[i].at)
  /\ ~isTokenExpired(task[i].at, task[i].chk)

\* The valid-token path once finished: returned without a requestRefresh call.
ValidDone(i) ==
  /\ task[i].kind = "icpt" /\ task[i].mode = "refresher"
  /\ Done(i) /\ task[i].out = "returned" /\ task[i].calls = 0

\* C14 as stated: on the valid-token path isRefreshing stays false for the
\* whole call and no request is placed in the queue because of it.
C14_NoStateTransition ==
  \A i \in Reqs :
    /\ ValidPath(i) => ~isRefreshing
    /\ ValidDone(i) => \A j \in Reqs : task[j].by # i

\* C14, amended: on the valid-token path the call yields the stored token
\* without invoking requestRefresh and without writing the store, but it holds
\* isRefreshing raised from before its read of the access token until it
\* returns; the requests arriving meanwhile are queued and are released with
\* that same stored token.
C14_ValidTokenPath ==
  \A i \in Reqs :
    /\ ValidPath(i) =>
         /\ task[i].pc = "resolved" /\ task[i].tok = task[i].at
         /\ task[i].calls = 0
         /\ store = task[i].seen
         /\ isRefreshing
         /\ \A j \in Reqs : Waiting(j) => task[j].pc = "queued"
    /\ ValidDone(i) =>
         /\ task[i].hdr = HeaderOf(task[i].tok)
         /\ \A j \in Reqs : (task[j].by = i) =>
              /\ task[j].mode = "queued" /\ task[j].tok = task[i].tok
              /\ task[j].pc \in {"waiterResolved", "done"}
              /\ Done(j) => (task[j].out = "returned" /\ task[j].hdr = task[i].hdr)
    /\ (task[i].kind = "icpt" /\ task[i].pc \in {"getAccessToken", "gotAccessToken"})
       => isRefreshing

\* A request on the valid-token path is about to return while another request,
\* which arrived meanwhile, waits in the queue.
C14_Witness ==
  \E i, j \in Reqs :
    /\ ValidPath(i) /\ task[i].pc = "resolved"
    /\ task[j].pc = "queued" /\ Waiting(j)

\* C15: in every reachable state (the states are the points at which control
\* passes from one task to another) the queue is empty whenever isRefreshing
\* is false.
C15_QueueEmptyWhenIdle == ~isRefreshing => queue = <<>>

\* A cycle with a waiter has been settled: the flag is lowered, the queue is
\* empty and the released waiter has not yet run on.
C15_Witness ==
  /\ ~isRefreshing /\ queue = <<>>
  /\ \E j \in Reqs : task[j].mode = "queued" /\ task[j].pc = "waiterRejected"

\* The cycle in flight: the interceptor requests that raised isRefreshing and
\* have not yet lowered it.
Refreshers == {i \in Reqs : task[i].kind = "icpt" /\ task[i].mode = "refresher" /\ ~Done(i)}

\* C16: a request is enqueued only while a cycle is in flight; as long as it
\* waits that same cycle stays in flight with isRefreshing raised; it leaves the
\* queue only by being settled by that cycle's request, in the step that lowers
\* isRefreshing; once settled it is never settled again or enqueued again.
C16_WaiterSettledOnce ==
  [][\A j \in Reqs :
       /\ (task[j].pc # "queued" /\ task'[j].pc = "queued")
          => /\ isRefreshing /\ isRefreshing'
             /\ Cardinality(Refreshers) = 1 /\ Refreshers' = Refreshers
             /\ task[j].by = 0
       /\ (task[j].pc = "queued" /\ task'[j].pc = "queued")
          => /\ isRefreshing /\ isRefreshing'
             /\ Refreshers' = Refreshers
             /\ \E k \in 1..Len(queue') : queue'[k] = j
       /\ (task[j].pc = "queued" /\ task'[j].pc # "queued")
          => /\ task'[j].pc \in {"waiterResolved", "waiterRejected"}
             /\ Refreshers = {task'[j].by}
             /\ Refreshers' = {}
             /\ ~isRefreshing'
             /\ queue' = <<>>
       /\ (task[j].by # 0)
          => /\ task'[j].by = task[j].by
             /\ task'[j].pc \in {task[j].pc, "done"}
             /\ task[j].mode = "queued"]_vars

\* A waiter settled by one cycle has not yet run on while a later cycle's
\* requestRefresh is outstanding.
C16_Witness ==
  \E i, j, k \in Reqs :
    /\ task[j].by = i /\ Done(i) /\ task[j].pc = "waiterResolved"
    /\ task[k].mode = "refresher" /\ task[k].pc = "requestRefresh"

\* C17: isRefreshing is raised exactly while a request's cycle is in flight, so
\* once that request has settled (returned, or failed on a storage read, on
\* decoding, on the callback or on its result) isRefreshing is false and the
\* queue is empty; and a request that finds a refresh token with no cycle in
\* flight is not queued: it starts a cycle of its own, and with a stored token
\* it finds expired and a refresh token it invokes requestRefresh.
C17_ReturnToIdle ==
  [][/\ (isRefreshing <=> Refreshers # {})
     /\ (isRefreshing' <=> Refreshers' # {})
     /\ (Refreshers' = {} => queue' = <<>>)
     /\ \A i \in Reqs :
          /\ (i \in Refreshers /\ i \notin Refreshers')
             => (task'[i].pc = "done" /\ ~isRefreshing' /\ queue' = <<>>)
          /\ (/\ task[i].kind = "icpt" /\ task[i].pc = "gotRefreshToken"
              /\ task'[i].pc # "gotRefreshToken"
              /\ ~Falsy(task[i].rt) /\ Refreshers = {})
             => (task'[i].mode = "refresher" /\ task'[i].pc = "getAccessToken")
          /\ (/\ task[i].kind = "icpt" /\ task[i].pc = "gotRefreshToken2"
              /\ task'[i].pc # "gotRefreshToken2"
              /\ ~Falsy(task[i].arg))
             => (task'[i].pc = "requestRefresh" /\ task'[i].calls = task[i].calls + 1)]_vars

\* One request's refresh has failed on a callback rejection that is not an
\* authorization failure; a later request, not queued, has requestRefresh
\* outstanding.
C17_Witness ==
  \E i, j \in Reqs :
    /\ Done(i) /\ task[i].mode = "refresher" /\ task[i].calls = 1
    /\ task[i].err = UnableToRefreshError(RethrownError(CallbackError(500)))
    /\ task[j].mode = "refresher" /\ task[j].pc = "requestRefresh"
    /\ isRefreshing

\* C18: a request joins the queue at its end and the queue is otherwise left
\* in order until it is released; the release settles every waiter of the
\* cycle in one step, each in the turn of its place in the queue, so that of
\* two waiters the one enqueued first has its resolve/reject invoked first.
C18_FifoRelease ==
  [][/\ \/ queue' = queue
        \/ \E j \in Reqs : ~Waiting(j) /\ queue' = Append(queue, j)
        \/ queue' = <<>>
     /\ (queue # <<>> /\ queue' = <<>>)
        => /\ \A k \in 1..Len(queue) :
                /\ task'[queue[k]].pc \in {"waiterResolved", "waiterRejected"}
                /\ task'[queue[k]].ord = k
           /\ \A k1, k2 \in 1..Len(queue) :
                k1 < k2 => task'[queue[k1]].ord < task'[queue[k2]].ord
           /\ \A j1, j2 \in Reqs :
                (task'[j1].pc = "waiterResolved" /\ task'[j2].pc = "waiterRejected")
                => ~(Waiting(j1) /\ Waiting(j2))]_vars

\* Two waiters of one cycle have been released, the one enqueued first having
\* had the first turn.
C18_Witness ==
  \E i, j1, j2 \in Reqs :
    /\ task[j1].by = i /\ task[j2].by = i
    /\ task[j1].ord = 1 /\ task[j2].ord = 2
    /\ task[j1].pc = task[j2].pc

\* C19: when clearAuthTokens() has completed while a request's requestRefresh
\* was outstanding, then once that request's refresh has settled the token
\* store is empty and isLoggedIn() is false.
C19_LogoutNotUndone ==
  \A c, i \in Reqs :
    (task[c].kind = "clear" /\ Done(c) /\ task[c].by = i /\ Done(i))
    => (store = NullItem /\ ~isLoggedIn(store))

\* C20: when setAuthTokens(p) has completed while a request's refresh, begun
\* with an older refresh token, was in progress, then once that refresh has
\* settled the stored refresh token is p.refreshToken.
C20_LoginNotUndone ==
  \A l, i \in Reqs :
    (task[l].kind = "login" /\ Done(l) /\ task[l].by = i /\ Done(i))
    => getRefreshToken(store) = AppTokens.refreshToken

====
